---- MODULE Spec2Model ----
(***************************************************************************)
(* A model of the Camille MCP pipe proxy (mcp-pipe-proxy.py): the bridge   *)
(* that reads newline-delimited JSON-RPC lines from stdin, forwards them   *)
(* to a Unix-socket backend and writes the answers to stdout.              *)
(*                                                                         *)
(* Bytes are modelled as one-character strings; a byte string is a         *)
(* sequence of them.  The text of a diagnostic message is one opaque       *)
(* symbol: no rule of the JSON grammar looks inside it.                    *)
(***************************************************************************)
EXTENDS Integers, Sequences, FiniteSets, TLC

(***************************************************************************)
(* Bounds of the model.                                                    *)
(***************************************************************************)
MaxLines == 2
MaxBuf == 30
MaxAttemptArg == 7
MaxDbgLines == 3
MaxDbgChunks == 3

(***************************************************************************)
(* Program constants.  Delays are in milliseconds.                         *)
(***************************************************************************)
MAX_RECONNECT_ATTEMPTS == 5
INITIAL_RECONNECT_DELAY == 500
MAX_RECONNECT_DELAY == 10000
ERROR_CODE == -32603

(***************************************************************************)
(* Python values as json.loads produces them.  Every value is a record of  *)
(* the same four fields, so that any two can be compared: t is the type,   *)
(* n the number, s the text (of a string, or the key of a member) and kids *)
(* the elements of a list or the members of a dict, in insertion order.    *)
(* JNull is Python's None.                                                 *)
(***************************************************************************)
JV(t, n, s, kids) == [t |-> t, n |-> n, s |-> s, kids |-> kids]
JNull == JV("null", 0, <<>>, <<>>)
JTrue == JV("true", 0, <<>>, <<>>)
JFalse == JV("false", 0, <<>>, <<>>)
JNum(n) == JV("num", n, <<>>, <<>>)
JStr(s) == JV("str", 0, s, <<>>)
JArr(kids) == JV("arr", 0, <<>>, kids)
JPair(k, v) == JV("pair", 0, k, <<v>>)
JObj(pairs) == JV("obj", 0, <<>>, pairs)

IsDict(v) == v.t = "obj"

\* k in d
HasKey(d, k) == \E i \in 1..Len(d.kids) : d.kids[i].s = k

\* d.get(k, dflt)
DictGet(d, k, dflt) ==
    IF HasKey(d, k)
    THEN d.kids[CHOOSE i \in 1..Len(d.kids) : d.kids[i].s = k].kids[1]
    ELSE dflt

\* d[k] = v: an existing key keeps its place, a new one is appended
DictPut(pairs, k, v) ==
    IF \E i \in 1..Len(pairs) : pairs[i].s = k
    THEN [i \in 1..Len(pairs) |-> IF pairs[i].s = k THEN JPair(k, v) ELSE pairs[i]]
    ELSE Append(pairs, JPair(k, v))

\* bool(v)
Truthy(v) ==
    CASE v.t = "null" -> FALSE
      [] v.t = "false" -> FALSE
      [] v.t = "true" -> TRUE
      [] v.t = "num" -> v.n # 0
      [] v.t = "str" -> v.s # <<>>
      [] OTHER -> v.kids # <<>>

(***************************************************************************)
(* The bytes the JSON grammar names.                                       *)
(***************************************************************************)
Q == "\""
BS == "\\"
NL == "\n"
CR == "\r"
TAB == "\t"
SP == " "
Whitespace == {SP, TAB, NL, CR}
Digits == <<"0", "1", "2", "3", "4", "5", "6", "7", "8", "9">>
DigitSet == {Digits[i] : i \in 1..10}
DigitVal(c) == (CHOOSE i \in 1..10 : Digits[i] = c) - 1

\* s[a..b], empty when a > b
Slice(s, a, b) == IF a > b THEN <<>> ELSE SubSeq(s, a, b)

\* F applied to the value of e, computed once
Bind(e, F(_)) == CHOOSE out \in {F(x) : x \in {e}} : TRUE

Min(a, b) == IF a < b THEN a ELSE b

(***************************************************************************)
(* json.dumps with its defaults: ", " and ": " as separators, control      *)
(* characters, quotes and backslashes escaped inside strings.              *)
(***************************************************************************)
RECURSIVE DumpsNat(_)
DumpsNat(n) ==
    IF n < 10 THEN <<Digits[n + 1]>>
    ELSE DumpsNat(n \div 10) \o <<Digits[(n % 10) + 1]>>

DumpsInt(n) == IF n < 0 THEN <<"-">> \o DumpsNat(-n) ELSE DumpsNat(n)

EscapeChar(c) ==
    CASE c = Q -> <<BS, Q>>
      [] c = BS -> <<BS, BS>>
      [] c = NL -> <<BS, "n">>
      [] c = CR -> <<BS, "r">>
      [] c = TAB -> <<BS, "t">>
      [] OTHER -> <<c>>

RECURSIVE EscapeText(_)
EscapeText(s) ==
    IF s = <<>> THEN <<>> ELSE EscapeChar(Head(s)) \o EscapeText(Tail(s))

DumpsStr(s) == <<Q>> \o EscapeText(s) \o <<Q>>

RECURSIVE Dumps(_), DumpsItems(_), DumpsMembers(_)
Dumps(v) ==
    CASE v.t = "null" -> <<"n", "u", "l", "l">>
      [] v.t = "true" -> <<"t", "r", "u", "e">>
      [] v.t = "false" -> <<"f", "a", "l", "s", "e">>
      [] v.t = "num" -> DumpsInt(v.n)
      [] v.t = "str" -> DumpsStr(v.s)
      [] v.t = "arr" -> <<"[">> \o DumpsItems(v.kids) \o <<"]">>
      [] OTHER -> <<"{">> \o DumpsMembers(v.kids) \o <<"}">>

DumpsItems(kids) ==
    IF kids = <<>> THEN <<>>
    ELSE Dumps(Head(kids))
         \o (IF Len(kids) > 1 THEN <<",", SP>> ELSE <<>>)
         \o DumpsItems(Tail(kids))

DumpsMembers(kids) ==
    IF kids = <<>> THEN <<>>
    ELSE DumpsStr(Head(kids).s) \o <<":", SP>> \o Dumps(Head(kids).kids[1])
         \o (IF Len(kids) > 1 THEN <<",", SP>> ELSE <<>>)
         \o DumpsMembers(Tail(kids))

(***************************************************************************)
(* json.loads: a recursive-descent reading of the grammar.  A parse result *)
(* is [ok, val, pos]: pos is the index of the first byte not consumed.     *)
(* Numbers are integers without fraction or exponent, strings have the     *)
(* two-character escapes; the inputs of the model use nothing else.        *)
(***************************************************************************)
PFail == [ok |-> FALSE, val |-> JNull, pos |-> 0]
POk(v, p) == [ok |-> TRUE, val |-> v, pos |-> p]

RECURSIVE SkipWs(_, _)
SkipWs(s, i) ==
    IF i <= Len(s) /\ s[i] \in Whitespace THEN SkipWs(s, i + 1) ELSE i

Unescape(c) ==
    CASE c = "n" -> NL
      [] c = "r" -> CR
      [] c = "t" -> TAB
      [] OTHER -> c

\* the text of a string whose opening quote is before index i
RECURSIVE ParseText(_, _, _)
ParseText(s, i, acc) ==
    IF i > Len(s) THEN PFail
    ELSE IF s[i] = Q THEN POk(JStr(acc), i + 1)
    ELSE IF s[i] = BS
         THEN IF i + 1 <= Len(s) /\ s[i + 1] \in {Q, BS, "/", "n", "r", "t"}
              THEN ParseText(s, i + 2, Append(acc, Unescape(s[i + 1])))
              ELSE PFail
    ELSE IF s[i] \in {NL, CR, TAB} THEN PFail
    ELSE ParseText(s, i + 1, Append(acc, s[i]))

RECURSIVE ParseDigits(_, _, _)
ParseDigits(s, i, acc) ==
    IF i <= Len(s) /\ s[i] \in DigitSet
    THEN ParseDigits(s, i + 1, 10 * acc + DigitVal(s[i]))
    ELSE POk(JNum(acc), i)

\* -?(0|[1-9][0-9]*)
ParseNat(s, i) ==
    IF i > Len(s) \/ s[i] \notin DigitSet THEN PFail
    ELSE IF s[i] = "0" THEN POk(JNum(0), i + 1)
    ELSE ParseDigits(s, i, 0)

ParseNumber(s, i) ==
    IF s[i] = "-"
    THEN Bind(ParseNat(s, i + 1),
              LAMBDA r : IF r.ok THEN POk(JNum(-r.val.n), r.pos) ELSE PFail)
    ELSE ParseNat(s, i)

ParseLiteral(s, i, word, v) ==
    IF i + Len(word) - 1 <= Len(s) /\ SubSeq(s, i, i + Len(word) - 1) = word
    THEN POk(v, i + Len(word))
    ELSE PFail

RECURSIVE ParseValue(_, _), ParseItems(_, _, _), ParseMembers(_, _, _)
ParseValue(s, i) ==
    IF i > Len(s) THEN PFail
    ELSE CASE s[i] = Q -> ParseText(s, i + 1, <<>>)
           [] s[i] = "{" ->
                LET j == SkipWs(s, i + 1)
                IN IF j <= Len(s) /\ s[j] = "}" THEN POk(JObj(<<>>), j + 1)
                   ELSE ParseMembers(s, j, <<>>)
           [] s[i] = "[" ->
                LET j == SkipWs(s, i + 1)
                IN IF j <= Len(s) /\ s[j] = "]" THEN POk(JArr(<<>>), j + 1)
                   ELSE ParseItems(s, j, <<>>)
           [] s[i] = "n" -> ParseLiteral(s, i, <<"n", "u", "l", "l">>, JNull)
           [] s[i] = "t" -> ParseLiteral(s, i, <<"t", "r", "u", "e">>, JTrue)
           [] s[i] = "f" -> ParseLiteral(s, i, <<"f", "a", "l", "s", "e">>, JFalse)
           [] s[i] = "-" \/ s[i] \in DigitSet -> ParseNumber(s, i)
           [] OTHER -> PFail

\* the items of a list, i at the first byte of the next item
ParseItems(s, i, acc) ==
    Bind(ParseValue(s, i), LAMBDA r :
        IF ~r.ok THEN PFail
        ELSE LET j == SkipWs(s, r.pos)
             IN IF j > Len(s) THEN PFail
                ELSE IF s[j] = "]" THEN POk(JArr(Append(acc, r.val)), j + 1)
                ELSE IF s[j] = "," THEN ParseItems(s, SkipWs(s, j + 1), Append(acc, r.val))
                ELSE PFail)

\* the members of a dict, i at the opening quote of the next key
ParseMembers(s, i, acc) ==
    IF i > Len(s) \/ s[i] # Q THEN PFail
    ELSE Bind(ParseText(s, i + 1, <<>>), LAMBDA k :
         IF ~k.ok THEN PFail
         ELSE LET c == SkipWs(s, k.pos)
              IN IF c > Len(s) \/ s[c] # ":" THEN PFail
                 ELSE Bind(ParseValue(s, SkipWs(s, c + 1)), LAMBDA r :
                      IF ~r.ok THEN PFail
                      ELSE Bind(DictPut(acc, k.val.s, r.val), LAMBDA more :
                           LET j == SkipWs(s, r.pos)
                           IN IF j > Len(s) THEN PFail
                              ELSE IF s[j] = "}" THEN POk(JObj(more), j + 1)
                              ELSE IF s[j] = ","
                                   THEN ParseMembers(s, SkipWs(s, j + 1), more)
                              ELSE PFail)))

\* json.loads(s): [ok, val]; ok is FALSE where Python raises JSONDecodeError
Loads(s) ==
    Bind(s, LAMBDA text :
    Bind(ParseValue(text, SkipWs(text, 1)), LAMBDA r :
        IF r.ok /\ SkipWs(text, r.pos) > Len(text)
        THEN [ok |-> TRUE, val |-> r.val]
        ELSE [ok |-> FALSE, val |-> JNull]))

\* str.strip()
RECURSIVE StripRight(_)
StripRight(s) ==
    IF s # <<>> /\ s[Len(s)] \in Whitespace
    THEN StripRight(SubSeq(s, 1, Len(s) - 1))
    ELSE s

Strip(s) == StripRight(Slice(s, SkipWs(s, 1), Len(s)))

(***************************************************************************)
(* The frames the bridge synthesizes (send_error) and the texts in them.   *)
(***************************************************************************)
K_id == <<"i", "d">>
K_result == <<"r", "e", "s", "u", "l", "t">>
K_tools == <<"t", "o", "o", "l", "s">>
K_name == <<"n", "a", "m", "e">>
K_method == <<"m", "e", "t", "h", "o", "d">>
K_jsonrpc == <<"j", "s", "o", "n", "r", "p", "c">>
K_error == <<"e", "r", "r", "o", "r">>
K_code == <<"c", "o", "d", "e">>
K_message == <<"m", "e", "s", "s", "a", "g", "e">>

MsgInvalidJson == <<"Invalid JSON request">>
MsgNotRunning == <<"Camille server is not running. Please start it with: camille server start">>
MsgPermission == <<"Permission denied accessing Camille config. Run: ./fix-permissions.sh">>
MsgExhausted == <<"Failed to communicate with Camille server after 5 attempts">>
MsgConfigOpen == <<"Proxy error: [Errno 21] Is a directory: '~/.camille/config.json'">>
MsgNotIterable == <<"Proxy error: argument of type is not iterable">>
MsgNoLen == <<"Proxy error: object has no len()">>

\* "Proxy error: " + str(AttributeError) for v.get(...) on a value that is no dict
MsgNoGet(v) ==
    CASE v.t = "null" -> <<"Proxy error: 'NoneType' object has no attribute 'get'">>
      [] v.t \in {"true", "false"} -> <<"Proxy error: 'bool' object has no attribute 'get'">>
      [] v.t = "num" -> <<"Proxy error: 'int' object has no attribute 'get'">>
      [] v.t = "str" -> <<"Proxy error: 'str' object has no attribute 'get'">>
      [] OTHER -> <<"Proxy error: 'list' object has no attribute 'get'">>

ErrorFrame(message, id) ==
    JObj(<< JPair(K_jsonrpc, JStr(<<"2", ".", "0">>)),
            JPair(K_error, JObj(<< JPair(K_code, JNum(ERROR_CODE)),
                                   JPair(K_message, JStr(message)) >>)),
            JPair(K_id, id) >>)

\* print(json.dumps(obj)): one line on stdout
Printed(obj) == Dumps(obj) \o <<NL>>

(***************************************************************************)
(* send_response(response_obj): the value its "tools/list" branch raises   *)
(* on, if any, before anything is printed.  [raises, msg].                 *)
(***************************************************************************)
NoRaise == [raises |-> FALSE, msg |-> <<>>]
Raise(m) == [raises |-> TRUE, msg |-> m]

\* the first element of tools the comprehension calls .get on, as iterated
ToolsItems(tools) ==
    CASE tools.t = "str" -> [i \in 1..Len(tools.s) |-> JStr(<<tools.s[i]>>)]
      [] tools.t = "obj" -> [i \in 1..Len(tools.kids) |-> JStr(tools.kids[i].s)]
      [] OTHER -> tools.kids

SendResponseRaises(v) ==
    IF ~IsDict(v) THEN NoRaise
    ELSE LET r == DictGet(v, K_result, JObj(<<>>))
         IN IF ~IsDict(r) THEN Raise(MsgNoGet(r))
            ELSE LET tools == DictGet(r, K_tools, JNull)
                 IN IF tools = JNull THEN NoRaise
                    ELSE IF tools.t \in {"num", "true", "false"} THEN Raise(MsgNoLen)
                    ELSE LET items == ToolsItems(tools)
                             bad == {i \in 1..Len(items) : ~IsDict(items[i])}
                         IN IF bad = {} THEN NoRaise
                            ELSE Raise(MsgNoGet(items[CHOOSE i \in bad : \A j \in bad : i <= j]))

(***************************************************************************)
(* The read loop of forward_to_pipe, as operators on response_data.        *)
(***************************************************************************)
HasNL(b) == \E i \in 1..Len(b) : b[i] = NL

\* response_data.split(b'\n')[0]
FirstLine(b) ==
    LET i == CHOOSE k \in 1..Len(b) : b[k] = NL /\ \A j \in 1..(k - 1) : b[j] # NL
    IN Slice(b, 1, i - 1)

\* the bytes after the first newline
AfterFirstLine(b) ==
    LET i == CHOOSE k \in 1..Len(b) : b[k] = NL /\ \A j \in 1..(k - 1) : b[j] # NL
    IN Slice(b, i + 1, Len(b))

\* a read loop that keeps the last chunk only
Accumulate_LastChunk(b, chunk) == chunk

\* response_data += chunk.  Once response_data holds a newline the loop reads
\* nothing but the bytes before it, so the model does not keep what arrives
\* later: the code appends it and never looks at it.
Accumulate(b, chunk) == IF HasNL(b) THEN b ELSE b \o chunk

\* The byte 0xFF, which is no UTF-8: response_line.decode('utf-8') raises.
XFF == "xFF"
Utf8Ok(b) == \A i \in 1..Len(b) : b[i] # XFF

\* What one pass of the loop body does after the chunk is appended:
\* "return" a value, "raise" (UnicodeDecodeError) or "continue" with recv.
ScanLine(b) ==
    IF ~HasNL(b) THEN [act |-> "continue", val |-> JNull]
    ELSE IF ~Utf8Ok(FirstLine(b)) THEN [act |-> "raise", val |-> JNull]
    ELSE Bind(Loads(FirstLine(b)), LAMBDA r :
         IF r.ok THEN [act |-> "return", val |-> r.val]
         ELSE [act |-> "continue", val |-> JNull])

\* request_line = json.dumps(request) + '\n'
RequestLine(req) == Dumps(req) \o <<NL>>

(***************************************************************************)
(* reconnect_with_backoff: the delay before the attempt with index         *)
(* `attempt` (counted from 0), in milliseconds.                            *)
(***************************************************************************)
\* a schedule that starts doubling one attempt early
BackoffDelay_Early(attempt) ==
    Min(INITIAL_RECONNECT_DELAY * (2 ^ attempt), MAX_RECONNECT_DELAY)

BackoffDelay(attempt) ==
    Min(INITIAL_RECONNECT_DELAY * (2 ^ (attempt - 1)), MAX_RECONNECT_DELAY)

SleepsBefore(attempt) == attempt > 0

GivesUp(attempt, maxAttempts) == attempt >= maxAttempts

(***************************************************************************)
(* main: how a parsed line is classified.  'id' not in request follows     *)
(* Python's `in`: key lookup on a dict, substring on a str, membership on  *)
(* a list, TypeError on anything else.                                     *)
(***************************************************************************)
RECURSIVE HasSub(_, _)
HasSub(s, w) ==
    IF Len(s) < Len(w) THEN FALSE
    ELSE SubSeq(s, 1, Len(w)) = w \/ HasSub(Tail(s), w)

\* "yes", "no" or "raise"
IdIn(req) ==
    CASE req.t = "obj" -> IF HasKey(req, K_id) THEN "yes" ELSE "no"
      [] req.t = "str" -> IF HasSub(req.s, K_id) THEN "yes" ELSE "no"
      [] req.t = "arr" ->
           IF \E i \in 1..Len(req.kids) : req.kids[i] = JStr(K_id) THEN "yes" ELSE "no"
      [] OTHER -> "raise"

\* request.get('id')
RequestId(req) == DictGet(req, K_id, JNull)

\* a retry loop that gives up one attempt early
RetryLoopContinues_Fewer(attempts) == attempts < MAX_RECONNECT_ATTEMPTS - 1

RetryLoopContinues(attempts) == attempts < MAX_RECONNECT_ATTEMPTS

(***************************************************************************)
(* One pass through the body of reconnect_with_backoff(pipe_path, attempt) *)
(* whose connect ends as `ok` says: "none" (return None), "connected"      *)
(* (return client) or "retry" (the recursive call with attempt + 1).       *)
(***************************************************************************)
BackoffPass(attempt, maxAttempts, ok) ==
    IF GivesUp(attempt, maxAttempts)
    THEN [res |-> "none", slept |-> FALSE, delay |-> 0]
    ELSE [res |-> IF ok THEN "connected" ELSE "retry",
          slept |-> SleepsBefore(attempt),
          delay |-> IF SleepsBefore(attempt) THEN BackoffDelay(attempt) ELSE 0]

(***************************************************************************)
(* The environment: what the upstream peer may write on stdin, what the    *)
(* backend may send in one recv, and what the config file may be.          *)
(***************************************************************************)
ReqValue(id) == JObj(<< JPair(K_method, JStr(<<"p">>)), JPair(K_id, JNum(id)) >>)
NotifValue == JObj(<< JPair(K_method, JStr(<<"n">>)) >>)
RespValue(id, result) == JObj(<< JPair(K_result, result), JPair(K_id, JNum(id)) >>)
ToolsValue == JObj(<< JPair(K_result, JObj(<< JPair(K_tools, JArr(<<>>)) >>)) >>)

RequestIds == {1}
OtherIds == {2}

InputLines ==
    {RequestLine(ReqValue(id)) : id \in RequestIds}
    \cup { RequestLine(NotifValue),
           <<NL>>,
           <<"n", "o", "t", SP, "j", "s", "o", "n", NL>>,
           <<"5", NL>>,
           RequestLine(JStr(K_id)),
           RequestLine(JArr(<<JNum(1)>>)) }

\* the first and the second part of a line delivered in two writes
FirstPart(line) == Slice(line, 1, Len(line) \div 2)
SecondPart(line) == Slice(line, (Len(line) \div 2) + 1, Len(line))

BackendChunks ==
    {Printed(RespValue(id, JObj(<<>>))) : id \in RequestIds \cup OtherIds}
    \cup { Printed(RespValue(1, JStr(<<"p">>))),
           Printed(ToolsValue),
           FirstPart(Printed(RespValue(1, JObj(<<>>)))),
           SecondPart(Printed(RespValue(1, JObj(<<>>)))),
           Printed(JObj(<<>>)),
           Printed(JNull),
           <<"x", NL>>,
           <<XFF, NL>>,
           Printed(RespValue(1, JObj(<<>>))) \o <<"{">> }

ConfigStates == {"absent", "readable", "denied", "unopenable"}

(***************************************************************************)
(* State.  The first group is the bridge: main's locals, the position in   *)
(* its code, the call of reconnect_with_backoff and the buffer of          *)
(* forward_to_pipe in progress, and the sockets the process holds open.    *)
(* stdout holds the frames written since the last line was read (earlier   *)
(* ones are with the peer; nothing reads them again) and answered, for     *)
(* every frame ever written, the number of the line it was written for.    *)
(* inflight and obs observe the run: the request frames written on the     *)
(* current connection and not yet answered, and what happened since the    *)
(* last line was read.  cd and bk are the state of the frame codec and *)
(* of the backoff schedule when each is run on its own, and dbg is the     *)
(* state of the debug proxy (mcp-pipe-proxy-debug.py).                     *)
(***************************************************************************)
VARIABLES pc, client, request, reconnect_attempts, response, rb_attempt,
          rb_caller, response_data, request_count, stdout, answered,
          openSocks, inflight, obs, cd, bk, dbg

bridgeVars == <<pc, client, request, reconnect_attempts, response, rb_attempt,
                rb_caller, response_data, request_count, stdout, answered,
                openSocks, inflight, obs>>
vars == <<pc, client, request, reconnect_attempts, response, rb_attempt,
          rb_caller, response_data, request_count, stdout, answered,
          openSocks, inflight, obs, cd, bk, dbg>>

ObsFresh(c, socks) ==
    [kind |-> "none", frames |-> 0, connects |-> 0, sleeps |-> 0,
     lastK |-> 0, lastDelay |-> 0, writes |-> 0, sent |-> <<>>,
     silent |-> TRUE, path |-> "unchecked", cfg |-> "unchecked",
     returned |-> FALSE, fatal |-> FALSE, startClient |-> c,
     startSocks |-> socks, dropped |-> <<>>, resumeIndex |-> 0,
     firstUse |-> "none", gaveUp |-> FALSE]

CdIdle ==
    [pc |-> "idle", msg |-> JNull, rest |-> <<>>, buf |-> <<>>,
     chunks_received |-> 0, out |-> JNull]
BkIdle == [pc |-> "idle", maxAttempts |-> 0, attempt |-> 0, log |-> <<>>]
DbgIdle ==
    [pc |-> "idle", client |-> 0, open |-> {}, broken |-> {}, request |-> JNull,
     response_data |-> <<>>, chunks |-> 0, lines |-> 0, stdout |-> <<>>,
     connects |-> 0, fatal |-> FALSE]

\* the bridge's state as one record, and its assignment to the next state
St ==
    [pc |-> pc, client |-> client, request |-> request,
     reconnect_attempts |-> reconnect_attempts, response |-> response,
     rb_attempt |-> rb_attempt, rb_caller |-> rb_caller,
     response_data |-> response_data, request_count |-> request_count,
     stdout |-> stdout, answered |-> answered, openSocks |-> openSocks,
     inflight |-> inflight, obs |-> obs]

Becomes(s) ==
    \E t \in {s} :
        /\ pc' = t.pc
        /\ client' = t.client
        /\ request' = t.request
        /\ reconnect_attempts' = t.reconnect_attempts
        /\ response' = t.response
        /\ rb_attempt' = t.rb_attempt
        /\ rb_caller' = t.rb_caller
        /\ response_data' = t.response_data
        /\ request_count' = t.request_count
        /\ stdout' = t.stdout
        /\ answered' = t.answered
        /\ openSocks' = t.openSocks
        /\ inflight' = t.inflight
        /\ obs' = t.obs
        /\ UNCHANGED <<cd, bk, dbg>>

BridgeInit ==
    /\ pc = "read"
    /\ client = 0
    /\ request = JNull
    /\ reconnect_attempts = 0
    /\ response = JNull
    /\ rb_attempt = 0
    /\ rb_caller = "none"
    /\ response_data = <<>>
    /\ request_count = 0
    /\ stdout = <<>>
    /\ answered = <<>>
    /\ openSocks = {}
    /\ inflight = 0
    /\ obs = ObsFresh(0, {})

\* the descriptor a new socket gets: the lowest one not in use
NewSock(open) ==
    CHOOSE n \in 1..(Cardinality(open) + 1) :
        n \notin open /\ \A m \in 1..(n - 1) : m \in open

(***************************************************************************)
(* send_response and send_error, and the exits of main.                    *)
(***************************************************************************)
Write(s, obj) ==
    [s EXCEPT !.stdout = Append(@, Printed(obj)),
              !.answered = Append(@, s.request_count),
              !.obs.frames = @ + 1]

SendError(s, message, id) == Write(s, ErrorFrame(message, id))

\* an exit that leaves the connection open
Cleanup_KeepsOpen(s) == [s EXCEPT !.pc = "exited"]

\* finally: close the client, if any
Cleanup(s) == [s EXCEPT !.pc = "exited", !.openSocks = @ \ {s.client}]

\* except Exception as e: send_error(f"Proxy error: {str(e)}"), then finally
Fatal(s, message) ==
    Cleanup([SendError(s, message, JNull) EXCEPT !.obs.fatal = TRUE])

\* send_response(response_obj) called from the main loop, which goes on to
\* read the next line unless the call raises
SendResponse(s, obj) ==
    IF SendResponseRaises(obj).raises
    THEN Fatal(s, SendResponseRaises(obj).msg)
    ELSE [Write(s, obj) EXCEPT !.pc = "read"]

(***************************************************************************)
(* The request path of main.                                               *)
(***************************************************************************)
\* if response: send_response(response) else: send_error(..., request.get('id'))
FinishRequest(s) ==
    IF Truthy(s.response) THEN SendResponse(s, s.response)
    ELSE IF ~IsDict(s.request) THEN Fatal(s, MsgNoGet(s.request))
    ELSE [SendError(s, MsgExhausted, RequestId(s.request)) EXCEPT !.pc = "read"]

\* the head of the retry loop: while reconnect_attempts < MAX_RECONNECT_ATTEMPTS,
\* if not client: client = reconnect_with_backoff(pipe_path, reconnect_attempts)
RetryLoop(s) ==
    IF RetryLoopContinues(s.reconnect_attempts)
    THEN IF s.client = 0
         THEN [s EXCEPT !.pc = "rb", !.rb_attempt = s.reconnect_attempts,
                        !.rb_caller = "loop"]
         ELSE [s EXCEPT !.pc = "forward"]
    ELSE FinishRequest(s)

\* a failed exchange that keeps its connection for the next attempt
ExchangeFailed_KeepsClient(s) ==
    RetryLoop([s EXCEPT !.response_data = <<>>, !.reconnect_attempts = @ + 1])

\* except Exception: close the broken connection, client = None,
\* reconnect_attempts += 1
ExchangeFailed(s) ==
    Bind(RetryLoop([s EXCEPT !.openSocks = @ \ {s.client}, !.client = 0,
                             !.inflight = 0, !.response_data = <<>>,
                             !.reconnect_attempts = @ + 1]),
         LAMBDA t : IF t.pc = "rb" THEN [t EXCEPT !.obs.resumeIndex = t.rb_attempt]
                    ELSE t)

\* forward_to_pipe returned: break, then the response is sent
ExchangeDone(s, val) ==
    FinishRequest([s EXCEPT !.response = val, !.response_data = <<>>,
                            !.inflight = @ - 1, !.obs.returned = TRUE,
                            !.obs.dropped = AfterFirstLine(s.response_data)])

(***************************************************************************)
(* main: one line read from stdin, up to the first call that blocks.       *)
(***************************************************************************)
KindOf(v) ==
    IF ~IsDict(v) THEN "nondict"
    ELSE IF HasKey(v, K_id) THEN "request" ELSE "notification"

\* a missing socket path reported without the request's id
PipeMissing_NullId(s, cfg) ==
    LET t == [s EXCEPT !.obs.path = "absent", !.obs.cfg = cfg]
    IN IF cfg = "unopenable" THEN Fatal(t, MsgConfigOpen)
       ELSE IF ~IsDict(s.request) THEN Fatal(t, MsgNoGet(s.request))
       ELSE IF cfg = "denied"
            THEN [SendError(t, MsgPermission, JNull) EXCEPT !.pc = "read"]
       ELSE [SendError(t, MsgNotRunning, JNull) EXCEPT !.pc = "read"]

\* if not os.path.exists(pipe_path): ...
PipeMissing(s, cfg) ==
    LET t == [s EXCEPT !.obs.path = "absent", !.obs.cfg = cfg]
    IN IF cfg = "unopenable" THEN Fatal(t, MsgConfigOpen)
       ELSE IF ~IsDict(s.request) THEN Fatal(t, MsgNoGet(s.request))
       ELSE IF cfg = "denied"
            THEN [SendError(t, MsgPermission, RequestId(s.request)) EXCEPT !.pc = "read"]
       ELSE [SendError(t, MsgNotRunning, RequestId(s.request)) EXCEPT !.pc = "read"]

\* if 'id' not in request: ... else the retry loop
Classify(s) ==
    LET t == [s EXCEPT !.obs.path = "present"]
    IN CASE IdIn(s.request) = "raise" -> Fatal(t, MsgNotIterable)
         [] IdIn(s.request) = "no" ->
              IF ~IsDict(s.request) THEN Fatal(t, MsgNoGet(s.request))
              ELSE IF s.client = 0
                   THEN [t EXCEPT !.pc = "rb", !.rb_attempt = 0, !.rb_caller = "notif"]
              ELSE [t EXCEPT !.pc = "notif_send"]
         [] OTHER ->
              RetryLoop([t EXCEPT !.reconnect_attempts = 0, !.response = JNull])

\* a parse error that also drops the connection handle
OnParseError_DropsClient(s) ==
    [SendError(s, MsgInvalidJson, JNull) EXCEPT !.obs.kind = "unparsed",
                                                !.client = 0]

\* except json.JSONDecodeError: send_error("Invalid JSON request"); continue
OnParseError(s) ==
    [SendError(s, MsgInvalidJson, JNull) EXCEPT !.obs.kind = "unparsed"]

ReadLineStep(s, line, exists, cfg) ==
    LET t == [s EXCEPT !.request_count = @ + 1, !.stdout = <<>>,
                       !.obs = ObsFresh(s.client, s.openSocks)]
    IN Bind(Loads(Strip(line)), LAMBDA p :
           IF ~p.ok THEN OnParseError(t)
           ELSE LET u == [t EXCEPT !.request = p.val, !.obs.kind = KindOf(p.val)]
                IN IF exists THEN Classify(u) ELSE PipeMissing(u, cfg))

ReadLine ==
    /\ pc = "read"
    /\ request_count < MaxLines
    /\ \E line \in InputLines, exists \in BOOLEAN, cfg \in ConfigStates :
           Becomes(ReadLineStep(St, line, exists, cfg))

\* if not line: break
ReadEof ==
    /\ pc = "read"
    /\ Becomes(Cleanup(St))

(***************************************************************************)
(* reconnect_with_backoff, one pass at a time, and the return to main.     *)
(***************************************************************************)
ReconnectReturns(s) ==
    LET t == [s EXCEPT !.rb_attempt = 0, !.rb_caller = "none",
                       !.obs.resumeIndex = 0,
                       !.obs.gaveUp = (s.client = 0)]
    IN IF s.rb_caller = "notif"
       THEN IF s.client # 0 THEN [t EXCEPT !.pc = "notif_send"]
            ELSE [t EXCEPT !.pc = "read"]
       ELSE IF s.client # 0 THEN [t EXCEPT !.pc = "forward"]
            ELSE RetryLoop([t EXCEPT !.reconnect_attempts = @ + 1])

ReconnectStep(s, ok) ==
    LET r == BackoffPass(s.rb_attempt, MAX_RECONNECT_ATTEMPTS, ok)
        slept == IF r.slept
                 THEN [s EXCEPT !.obs.sleeps = @ + 1,
                                !.obs.lastK = s.rb_attempt + 1,
                                !.obs.lastDelay = r.delay]
                 ELSE s
        tried == [slept EXCEPT !.obs.connects = @ + 1, !.obs.gaveUp = FALSE]
    IN CASE r.res = "none" -> ReconnectReturns(s)
         [] r.res = "connected" ->
              ReconnectReturns([tried EXCEPT !.client = NewSock(s.openSocks),
                                             !.openSocks = @ \cup {NewSock(s.openSocks)},
                                             !.inflight = 0])
         [] OTHER -> [tried EXCEPT !.rb_attempt = @ + 1, !.obs.silent = FALSE]

Reconnect ==
    /\ pc = "rb"
    /\ \E ok \in BOOLEAN : Becomes(ReconnectStep(St, ok))

(***************************************************************************)
(* The notification path: sendall, no reply awaited.  On a failure the     *)
(* handle is dropped without close(): whether its descriptor is released   *)
(* at once is up to the runtime's collector.                               *)
(***************************************************************************)
\* client.sendall(...) is called.  For a line read with a handle held, the
\* first call is noted: made on that handle before any connect ("held"), or not
SendTried(s) ==
    IF s.obs.startClient # 0 /\ s.obs.firstUse = "none"
    THEN [s EXCEPT !.obs.firstUse =
                       IF s.client = s.obs.startClient /\ s.obs.connects = 0
                       THEN "held" ELSE "other"]
    ELSE s

NotifSendStep(s, ok, released) ==
    LET t == SendTried(s)
    IN IF ok
       THEN [t EXCEPT !.pc = "read", !.obs.writes = @ + 1,
                      !.obs.sent = RequestLine(s.request)]
       ELSE [t EXCEPT !.pc = "read", !.client = 0, !.inflight = 0,
                      !.obs.silent = FALSE,
                      !.openSocks = IF released THEN @ \ {s.client} ELSE @]

NotifSend ==
    /\ pc = "notif_send"
    /\ \E ok \in BOOLEAN, released \in BOOLEAN :
           Becomes(NotifSendStep(St, ok, released))

(***************************************************************************)
(* forward_to_pipe: the write, then the read loop, one recv at a time.     *)
(***************************************************************************)
\* log(f"FORWARDING REQUEST: {request.get('method')}") raises on a request
\* that is no dict, before anything is written
ForwardSendStep(s, ok) ==
    IF ~IsDict(s.request) THEN ExchangeFailed(s)
    ELSE IF ok
         THEN [SendTried(s) EXCEPT !.pc = "recv", !.response_data = <<>>,
                                   !.inflight = @ + 1, !.obs.writes = @ + 1,
                                   !.obs.sent = RequestLine(s.request)]
    ELSE ExchangeFailed([SendTried(s) EXCEPT !.obs.silent = FALSE])

ForwardSend ==
    /\ pc = "forward"
    /\ \E ok \in BOOLEAN : Becomes(ForwardSendStep(St, ok))

RecvTimeout ==
    /\ pc = "recv"
    /\ Becomes(ExchangeFailed(St))

\* recv returned b'', or raised
RecvClosed ==
    /\ pc = "recv"
    /\ Becomes(ExchangeFailed([St EXCEPT !.obs.silent = FALSE]))

RecvChunkStep(s, chunk) ==
    [s EXCEPT !.pc = "scan", !.response_data = Accumulate(@, chunk),
              !.obs.silent = FALSE]

RecvChunk ==
    /\ pc = "recv"
    /\ \E chunk \in BackendChunks :
           /\ HasNL(response_data) \/ Len(response_data) + Len(chunk) <= MaxBuf
           /\ Becomes(RecvChunkStep(St, chunk))

ScanStep(s) ==
    Bind(ScanLine(s.response_data), LAMBDA r :
        CASE r.act = "return" -> ExchangeDone(s, r.val)
          [] r.act = "raise" -> ExchangeFailed(s)
          [] OTHER -> [s EXCEPT !.pc = "recv"])

Scan ==
    /\ pc = "scan"
    /\ Becomes(ScanStep(St))

BridgeStep == Reconnect \/ NotifSend \/ ForwardSend \/ RecvTimeout \/ RecvClosed
              \/ RecvChunk \/ Scan

Init == BridgeInit /\ cd = CdIdle /\ bk = BkIdle /\ dbg = DbgIdle

Next == ReadLine \/ ReadEof \/ BridgeStep

Spec == Init /\ [][Next]_vars

\* Once a line is read every call the bridge blocks in returns: connect and recv
\* have timeouts, sendall fails or completes.
FairSpec == Spec /\ WF_vars(BridgeStep)

(***************************************************************************)
(* The frame codec on its own: the read loop of forward_to_pipe fed the    *)
(* bytes json.dumps(m) + '\n' of a message m, cut into chunks in every     *)
(* way.  Once every byte is delivered a loop that has not returned waits   *)
(* in recv until the timeout.                                              *)
(***************************************************************************)
RECV_SIZE == 4096

PongValue ==
    JObj(<< JPair(K_jsonrpc, JStr(<<"2", ".", "0">>)),
            JPair(K_result, JStr(<<"p", "o", "n", "g">>)),
            JPair(K_id, JNum(7)) >>)

CodecMessages ==
    { PongValue, ReqValue(1), NotifValue, RespValue(2, JObj(<<>>)),
      JNull, JTrue, JFalse, JNum(0), JNum(ERROR_CODE), JObj(<<>>),
      JStr(<<>>), JStr(<<"a", NL, Q, BS, "b", TAB>>),
      JArr(<<JNum(12), JStr(<<"x">>), JArr(<<>>), JNull>>),
      ErrorFrame(MsgNotRunning, JNum(1)) }

CodecInit ==
    /\ BridgeInit
    /\ bk = BkIdle
    /\ dbg = DbgIdle
    /\ cd \in { [pc |-> "recv", msg |-> m, rest |-> RequestLine(m), buf |-> <<>>,
                 chunks_received |-> 0, out |-> JNull] : m \in CodecMessages }

\* chunk = client.recv(4096); chunks_received += 1; response_data += chunk
CodecRecv ==
    /\ cd.pc = "recv"
    /\ cd.rest # <<>>
    /\ \E n \in 1..Min(Len(cd.rest), RECV_SIZE) :
           cd' = [cd EXCEPT !.pc = "scan",
                            !.buf = Accumulate(@, SubSeq(cd.rest, 1, n)),
                            !.rest = Slice(cd.rest, n + 1, Len(cd.rest)),
                            !.chunks_received = @ + 1]
    /\ UNCHANGED bridgeVars
    /\ UNCHANGED <<bk, dbg>>

CodecScan ==
    /\ cd.pc = "scan"
    /\ LET r == ScanLine(cd.buf)
       IN cd' = CASE r.act = "return" -> [cd EXCEPT !.pc = "done", !.out = r.val]
                  [] r.act = "raise" -> [cd EXCEPT !.pc = "raised"]
                  [] OTHER -> [cd EXCEPT !.pc = IF cd.rest = <<>> THEN "timeout"
                                                ELSE "recv"]
    /\ UNCHANGED bridgeVars
    /\ UNCHANGED <<bk, dbg>>

CodecNext == CodecRecv \/ CodecScan

SpecCodec == CodecInit /\ [][CodecNext]_vars

(***************************************************************************)
(* reconnect_with_backoff on its own, called with any attempt index and    *)
(* run against any attempt limit (the code's is MAX_RECONNECT_ATTEMPTS):   *)
(* bk.log holds, for every connect attempt made, its number (counted from  *)
(* 1, as the code logs it) and the delay slept before it.                  *)
(***************************************************************************)
BackoffInit ==
    /\ BridgeInit
    /\ cd = CdIdle
    /\ dbg = DbgIdle
    /\ bk \in { [pc |-> "call", maxAttempts |-> m, attempt |-> a, log |-> <<>>] :
                  m \in 1..MaxAttemptArg, a \in 0..MaxAttemptArg }

BackoffStep ==
    /\ bk.pc = "call"
    /\ \E ok \in BOOLEAN :
         LET r == BackoffPass(bk.attempt, bk.maxAttempts, ok)
             entry == [k |-> bk.attempt + 1, delay |-> r.delay]
         IN bk' = CASE r.res = "none" -> [bk EXCEPT !.pc = "none"]
                    [] r.res = "connected" ->
                         [bk EXCEPT !.pc = "connected", !.log = Append(@, entry)]
                    [] OTHER ->
                         [bk EXCEPT !.attempt = @ + 1, !.log = Append(@, entry)]
    /\ UNCHANGED bridgeVars
    /\ UNCHANGED <<cd, dbg>>

SpecBackoff == BackoffInit /\ [][BackoffStep]_vars

(***************************************************************************)
(* The debug proxy, mcp-pipe-proxy-debug.py: no retry and no backoff.  It  *)
(* connects when it holds no client, forwards every parsed line, request   *)
(* or notification alike, and writes what forward_to_pipe returns, which   *)
(* is an error frame when the exchange raised.  dbg.broken holds the       *)
(* handles on which an exchange has failed.                                *)
(***************************************************************************)
MsgPipeError == <<"Pipe communication error: ...">>
MsgConnectFailed == <<"Failed to connect to Camille server: ...">>

DbgLines ==
    { RequestLine(ReqValue(1)), RequestLine(NotifValue), <<"x", NL>>, <<"5", NL>> }

DbgChunks ==
    { Printed(RespValue(1, JObj(<<>>))),
      FirstPart(Printed(RespValue(1, JObj(<<>>)))),
      SecondPart(Printed(RespValue(1, JObj(<<>>)))),
      <<"x", NL>>,
      <<XFF, NL>> }

DbgInit ==
    /\ BridgeInit
    /\ cd = CdIdle
    /\ bk = BkIdle
    /\ dbg = [DbgIdle EXCEPT !.pc = "read"]

\* send_response(obj): print(json.dumps(obj))
DbgWrite(d, obj) == [d EXCEPT !.stdout = Append(@, Printed(obj))]

\* main's except Exception and finally
DbgFatal(d, message) ==
    [DbgWrite(d, ErrorFrame(message, JNull)) EXCEPT
        !.pc = "exited", !.fatal = TRUE, !.open = @ \ {d.client}]

\* send_error(message, request.get('id')); continue
DbgSendError(d, message) ==
    IF ~IsDict(d.request) THEN DbgFatal(d, MsgNoGet(d.request))
    ELSE [DbgWrite(d, ErrorFrame(message, RequestId(d.request))) EXCEPT !.pc = "read"]

\* forward_to_pipe's except Exception: the error frame is returned and main
\* writes it; client is left as it is
DbgExchangeFailed(d) ==
    DbgSendError([d EXCEPT !.broken = @ \cup {d.client}, !.response_data = <<>>],
                 MsgPipeError)

\* if not client: the path check, then socket() and connect()
DbgAcquire(d, exists, cfg, ok) ==
    IF d.client # 0 THEN [d EXCEPT !.pc = "send"]
    ELSE IF ~exists
         THEN IF cfg = "unopenable" THEN DbgFatal(d, MsgConfigOpen)
              ELSE IF cfg = "denied" THEN DbgSendError(d, MsgPermission)
              ELSE DbgSendError(d, MsgNotRunning)
    ELSE IF ok
         THEN [d EXCEPT !.pc = "send", !.client = NewSock(d.open),
                        !.open = @ \cup {NewSock(d.open)}, !.connects = @ + 1]
    ELSE DbgSendError([d EXCEPT !.connects = @ + 1], MsgConnectFailed)

DbgReadLineStep(d, line, exists, cfg, ok) ==
    LET e == [d EXCEPT !.lines = @ + 1, !.stdout = <<>>, !.connects = 0]
    IN Bind(Loads(Strip(line)), LAMBDA p :
           IF ~p.ok
           THEN DbgWrite(e, ErrorFrame(MsgInvalidJson, JNull))
           ELSE DbgAcquire([e EXCEPT !.request = p.val], exists, cfg, ok))

DbgReadLine ==
    /\ dbg.pc = "read"
    /\ dbg.lines < MaxDbgLines
    /\ \E line \in DbgLines, exists \in BOOLEAN, cfg \in ConfigStates,
          ok \in BOOLEAN :
           dbg' = DbgReadLineStep(dbg, line, exists, cfg, ok)
    /\ UNCHANGED bridgeVars
    /\ UNCHANGED <<cd, bk>>

\* if not line: break, then finally
DbgReadEof ==
    /\ dbg.pc = "read"
    /\ dbg' = [dbg EXCEPT !.pc = "exited", !.open = @ \ {dbg.client}]
    /\ UNCHANGED bridgeVars
    /\ UNCHANGED <<cd, bk>>

\* client.sendall(request_line.encode('utf-8'))
DbgSend ==
    /\ dbg.pc = "send"
    /\ \E ok \in BOOLEAN :
           dbg' = IF ok THEN [dbg EXCEPT !.pc = "recv", !.response_data = <<>>,
                                         !.chunks = 0]
                  ELSE DbgExchangeFailed(dbg)
    /\ UNCHANGED bridgeVars
    /\ UNCHANGED <<cd, bk>>

\* recv returned b'', or raised
DbgRecvClosed ==
    /\ dbg.pc = "recv"
    /\ dbg' = DbgExchangeFailed(dbg)
    /\ UNCHANGED bridgeVars
    /\ UNCHANGED <<cd, bk>>

\* the 25 s test at the head of the loop: it can fail only after a recv has
\* returned, the clock being started right before the loop
DbgTimeout ==
    /\ dbg.pc = "recv"
    /\ dbg.chunks >= 1
    /\ dbg' = DbgExchangeFailed(dbg)
    /\ UNCHANGED bridgeVars
    /\ UNCHANGED <<cd, bk>>

DbgRecvChunkStep(d, chunk) ==
    LET e == [d EXCEPT !.response_data = Accumulate(@, chunk), !.chunks = @ + 1]
    IN Bind(ScanLine(e.response_data), LAMBDA r :
           CASE r.act = "return" ->
                  [DbgWrite(e, r.val) EXCEPT !.pc = "read", !.response_data = <<>>]
             [] r.act = "raise" -> DbgExchangeFailed(e)
             [] OTHER -> e)

DbgRecvChunk ==
    /\ dbg.pc = "recv"
    /\ \E chunk \in DbgChunks :
           /\ HasNL(dbg.response_data)
              \/ Len(dbg.response_data) + Len(chunk) <= MaxBuf
           /\ dbg.chunks < MaxDbgChunks
           /\ dbg' = DbgRecvChunkStep(dbg, chunk)
    /\ UNCHANGED bridgeVars
    /\ UNCHANGED <<cd, bk>>

DbgNext ==
    DbgReadLine \/ DbgReadEof \/ DbgSend \/ DbgRecvClosed \/ DbgTimeout
    \/ DbgRecvChunk

SpecDebug == DbgInit /\ [][DbgNext]_vars

(***************************************************************************)
(* Properties.                                                             *)
(***************************************************************************)
\* the line last read is fully processed: main is back at readline, or left
LineDone == pc \in {"read", "exited"}

\* the i-th frame written for the current line, as the peer parses it
FrameAt(i) == Loads(stdout[i]).val

IsErrorFrame(f, message, id) ==
    /\ IsDict(f)
    /\ DictGet(f, K_jsonrpc, JNull) = JStr(<<"2", ".", "0">>)
    /\ DictGet(DictGet(f, K_error, JNull), K_code, JNull) = JNum(-32603)
    /\ DictGet(DictGet(f, K_error, JNull), K_message, JNull) = JStr(message)
    /\ HasKey(f, K_id)
    /\ DictGet(f, K_id, JTrue) = id

\* the response echoes the request's id
Echoes(resp, req) ==
    IsDict(resp) /\ HasKey(resp, K_id) /\ DictGet(resp, K_id, JNull) = RequestId(req)

\* C1: a Request answered by the backend with a line echoing its id is answered
\* on stdout by a frame with that id, whatever the rest of the response is.
C1_ResponseIdEchoed ==
    (obs.kind = "request" /\ obs.returned /\ LineDone /\ Echoes(response, request))
    => /\ Len(stdout) = 1
       /\ HasKey(FrameAt(1), K_id)
       /\ DictGet(FrameAt(1), K_id, JNull) = RequestId(request)

C1_Witness ==
    /\ obs.kind = "request"
    /\ obs.returned
    /\ Echoes(response, request)
    /\ DictGet(response, K_result, JNull) = JStr(<<"p">>)
    /\ pc = "exited"
    /\ Len(stdout) = 1
    /\ DictGet(FrameAt(1), K_id, JTrue) = JNull

\* C2: no frame is written for a Notification, whatever the backend's state.
C2_NotificationSilent ==
    obs.kind = "notification" => obs.frames = 0

C2_Witness ==
    /\ obs.kind = "notification"
    /\ obs.path = "absent"
    /\ pc = "read"
    /\ Len(stdout) = 1
    /\ IsErrorFrame(FrameAt(1), MsgNotRunning, JNull)

\* C3 as stated: with the socket path absent a Request gets exactly the
\* "server is not running" frame with its id, without connect or sleep, and the
\* loop goes on.
C3_NotRunningFrame ==
    (obs.kind = "request" /\ obs.path = "absent")
    => /\ obs.frames = 1
       /\ Len(stdout) = 1
       /\ IsErrorFrame(FrameAt(1), MsgNotRunning, RequestId(request))
       /\ obs.connects = 0
       /\ obs.sleeps = 0
       /\ ~obs.fatal

\* C3 amended: with the socket path absent a Request gets exactly one frame,
\* without connect, sleep or write to the backend: the "server is not running"
\* error with its id when the config file is absent or opens, the "Permission
\* denied" error with its id when opening it raises PermissionError (the loop
\* goes on in both cases), and a "Proxy error" frame with id null, after which
\* the bridge exits, when opening it fails in any other way.
C3_PipeMissing ==
    (obs.kind = "request" /\ obs.path = "absent")
    => /\ obs.frames = 1
       /\ Len(stdout) = 1
       /\ obs.connects = 0
       /\ obs.sleeps = 0
       /\ obs.writes = 0
       /\ client = obs.startClient
       /\ CASE obs.cfg \in {"absent", "readable"} ->
                 /\ IsErrorFrame(FrameAt(1), MsgNotRunning, RequestId(request))
                 /\ ~obs.fatal
            [] obs.cfg = "denied" ->
                 /\ IsErrorFrame(FrameAt(1), MsgPermission, RequestId(request))
                 /\ ~obs.fatal
            [] OTHER ->
                 /\ IsErrorFrame(FrameAt(1), MsgConfigOpen, JNull)
                 /\ obs.fatal
                 /\ pc = "exited"

C3_Witness ==
    /\ obs.kind = "request"
    /\ obs.path = "absent"
    /\ obs.cfg = "denied"
    /\ pc = "read"
    /\ client # 0

\* C4: a blank or unparsable line gets exactly one error frame with code -32603
\* and id null, causes no connect and no write to the backend, leaves the
\* connection handle as it was, and the loop goes on.
C4_ParseError ==
    obs.kind = "unparsed"
    => /\ obs.frames = 1
       /\ Len(stdout) = 1
       /\ IsErrorFrame(FrameAt(1), MsgInvalidJson, JNull)
       /\ obs.connects = 0
       /\ obs.writes = 0
       /\ client = obs.startClient
       /\ pc = "read" => openSocks = obs.startSocks
       /\ (pc = "read" /\ client # 0) => client \in openSocks
       /\ ~obs.fatal
       /\ LineDone

C4_Witness ==
    /\ obs.kind = "unparsed"
    /\ pc = "read"
    /\ client # 0
    /\ client \in openSocks
    /\ request_count = 2

\* C5: against a backend that accepts every connection and never sends, a
\* Request is written to the backend at most MAX_RECONNECT_ATTEMPTS times,
\* every attempt ends with the connection closed and dropped, and the one frame
\* written is the retry-exhaustion error with the request's id.
C5_SilentBackend ==
    (obs.kind = "request" /\ obs.path = "present" /\ obs.silent)
    => /\ obs.writes <= MAX_RECONNECT_ATTEMPTS
       /\ pc \in {"rb", "forward"} => (inflight = 0 /\ obs.writes = reconnect_attempts)
       /\ pc = "rb" => (client = 0 /\ openSocks = obs.startSocks \ {obs.startClient})
       /\ ~LineDone => obs.frames = 0
       /\ LineDone =>
            /\ obs.writes = MAX_RECONNECT_ATTEMPTS
            /\ client = 0
            /\ openSocks = obs.startSocks \ {obs.startClient}
            /\ obs.frames = 1
            /\ Len(stdout) = 1
            /\ IsErrorFrame(FrameAt(1), MsgExhausted, RequestId(request))
            /\ ~obs.fatal

C5_Witness ==
    /\ obs.kind = "request"
    /\ obs.path = "present"
    /\ obs.silent
    /\ pc = "read"
    /\ obs.writes = 5
    /\ obs.sleeps = 4

\* C5, the eventuality: under a backend that stays silent the Request is
\* answered.
C5_SilentAnswered ==
    (obs.kind = "request" /\ ~LineDone) ~> (LineDone \/ ~obs.silent)

\* C6: whatever value forward_to_pipe returns is the one frame written, as it
\* is, and the loop goes on.
C6_VerbatimResponse ==
    (obs.kind = "request" /\ obs.returned /\ LineDone)
    => /\ Len(stdout) = 1
       /\ FrameAt(1) = response
       /\ ~obs.fatal

C6_Witness ==
    /\ obs.kind = "request"
    /\ obs.returned
    /\ response = JObj(<<>>)
    /\ pc = "read"
    /\ Len(stdout) = 1
    /\ IsErrorFrame(FrameAt(1), MsgExhausted, RequestId(request))

\* C7: one frame per Request between two reads, so frames leave in the order
\* of the lines they answer, and never more than one request frame unanswered
\* on the current connection.
StrictlyIncreasing(seq) == \A i \in 1..(Len(seq) - 1) : seq[i] < seq[i + 1]

C7_Sequential ==
    /\ inflight <= 1
    /\ StrictlyIncreasing(answered)
    /\ obs.kind = "request" =>
         /\ ~LineDone => obs.frames = 0
         /\ LineDone =>
              /\ obs.frames = 1
              /\ Len(stdout) = 1
              /\ answered # <<>>
              /\ answered[Len(answered)] = request_count

C7_Witness ==
    /\ obs.kind = "request"
    /\ pc = "read"
    /\ obs.returned
    /\ obs.writes = 2
    /\ answered = <<1, 2>>

\* C8: fed json.dumps(m) + '\n' in chunks cut anywhere, the read loop returns m,
\* and returns only when the last byte, the newline, has arrived.
C8_RoundTrip ==
    /\ cd.pc \notin {"timeout", "raised"}
    /\ cd.pc = "done" => (cd.out = cd.msg /\ cd.rest = <<>> /\ HasNL(cd.buf))
    /\ (cd.pc = "scan" /\ cd.rest = <<>>) => ScanLine(cd.buf).act = "return"

C8_Witness ==
    /\ cd.pc = "done"
    /\ cd.msg = PongValue
    /\ cd.out = PongValue
    /\ cd.chunks_received = 2

\* C9: the delay before attempt 1 is none, before attempts 2..6 it is 0.5, 1, 2,
\* 4, 8 seconds, and 10 seconds before any later attempt.
ScheduleMs(k) ==
    CASE k = 1 -> 0
      [] k = 2 -> 500
      [] k = 3 -> 1000
      [] k = 4 -> 2000
      [] k = 5 -> 4000
      [] k = 6 -> 8000
      [] OTHER -> 10000

C10_RequestAnswered ==
    (obs.kind = "request" /\ ~LineDone) ~> (LineDone /\ obs.frames >= 1)

\* the read loop back in recv with a complete line it could not parse
C10_Witness ==
    /\ obs.kind = "request"
    /\ pc = "recv"
    /\ HasNL(response_data)
    /\ obs.frames = 0

\* C11: on end-of-stream the bridge leaves the read loop and closes the
\* connection handle if one is open, writing no frame; once it has left, no
\* frame is written and nothing is connected or written to the backend.
C11_EofShutdown ==
    [][/\ (pc = "read" /\ pc' = "exited" /\ request_count' = request_count)
          => /\ client' \notin openSocks'
             /\ openSocks' = openSocks \ {client}
             /\ stdout' = stdout
             /\ answered' = answered
             /\ obs' = obs
       /\ pc = "exited" => UNCHANGED vars]_vars

C11_Witness ==
    /\ pc = "exited"
    /\ ~obs.fatal
    /\ client # 0
    /\ client \notin openSocks
    /\ obs.writes = 1

\* C12: a complete line from the backend that fails to parse ends the exchange
\* at once: recv is never called again with such a line in response_data.
C12_FrameErrorTerminal ==
    pc = "recv" => ~HasNL(response_data)

\* recv is called again after the line "x" was received and rejected
C12_Witness ==
    /\ pc = "recv"
    /\ response_data = <<"x", NL>>
    /\ client \in openSocks
    /\ reconnect_attempts = 0
    /\ inflight = 1

\* C13: the bytes received after the newline of the line decoded are kept for
\* the next decode on the connection: forward_to_pipe discards none on return.
C13_NoByteDropped ==
    obs.returned => obs.dropped = <<>>

\* a response returned from a chunk that also held the first byte of the next
\* frame, the connection kept, and that byte gone
C13_Witness ==
    /\ obs.returned
    /\ obs.dropped = <<"{">>
    /\ pc = "read"
    /\ client \in openSocks
    /\ response_data = <<>>

\* C14: once reconnect_with_backoff has returned None for a Request the request
\* is over, answered by one error frame with the loop reading on, and no
\* Request causes more than MAX_RECONNECT_ATTEMPTS connect attempts.
\* (obs.gaveUp: it has returned None and no connect was attempted since.)
C14_NullIsTerminal ==
    obs.kind = "request"
    => /\ obs.gaveUp => (pc = "read" /\ obs.frames = 1)
       /\ obs.connects <= MAX_RECONNECT_ATTEMPTS

\* a Request answered after fifteen failed connects, reconnect_with_backoff
\* having returned None five times
C14_Witness ==
    /\ obs.kind = "request"
    /\ pc = "read"
    /\ obs.gaveUp
    /\ reconnect_attempts = MAX_RECONNECT_ATTEMPTS
    /\ obs.connects = 15
    /\ obs.sleeps = 14
    /\ obs.frames = 1

\* C15: a Notification read with no connection causes at most one connect
\* attempt and no backoff sleep.
C15_NotifSingleShot ==
    obs.kind = "notification" => (obs.connects <= 1 /\ obs.sleeps = 0)

\* a Notification dropped after five failed connects and four sleeps
C15_Witness ==
    /\ obs.kind = "notification"
    /\ pc = "read"
    /\ obs.connects = 5
    /\ obs.sleeps = 4
    /\ obs.frames = 0
    /\ client = 0

\* C16: the reconnection sequence that follows a failed exchange, hence a
\* connection that had succeeded, starts at attempt index 0: no delay before its
\* first connect and MAX_RECONNECT_ATTEMPTS attempts ahead.  (obs.resumeIndex is
\* the index such a sequence in progress was started with.)
C16_BackoffReset ==
    obs.kind = "request" => obs.resumeIndex = 0

\* connected at once, the exchange failed, and the reconnect slept 0.5 s before
\* its first connect, logged as attempt #2 (which failed in its turn)
C16_Witness ==
    /\ obs.kind = "request"
    /\ pc = "rb"
    /\ obs.resumeIndex = 1
    /\ rb_attempt = 2
    /\ obs.connects = 2
    /\ obs.sleeps = 1
    /\ obs.lastK = 2
    /\ obs.lastDelay = INITIAL_RECONNECT_DELAY

\* C17: a handle whose write or read failed is closed, so the only socket the
\* bridge ever holds open is the one client refers to.
C17_HandleReleased ==
    openSocks \subseteq {client}

\* after a failed notification write: no handle, and its socket still open
C17_Witness ==
    /\ obs.kind = "notification"
    /\ pc = "read"
    /\ client = 0
    /\ obs.startClient # 0
    /\ openSocks = {obs.startClient}

\* C18: a Request or Notification read while a handle is connected is written
\* to that handle before any connect is attempted, whether or not the socket
\* path exists.
C18_ReusesLive ==
    (obs.kind \in {"request", "notification"} /\ obs.startClient # 0)
    => /\ LineDone => obs.firstUse = "held"
       /\ obs.firstUse = "none" => obs.connects = 0
       /\ obs.firstUse # "other"

\* a Request read while connected, with the socket path gone: answered by an
\* error frame, nothing written to the handle, the handle kept
C18_Witness ==
    /\ obs.kind = "request"
    /\ obs.startClient # 0
    /\ obs.path = "absent"
    /\ pc = "read"
    /\ obs.firstUse = "none"
    /\ obs.writes = 0
    /\ obs.frames = 1
    /\ client = obs.startClient
    /\ client \in openSocks

\* C19: the bridge leaves the read loop on end-of-stream only: never because
\* of what a line or a response holds.
C19_OnlyEofStops ==
    pc = "exited" => ~obs.fatal

\* the line 5, read with the socket path present, ended the process
C19_Witness ==
    /\ pc = "exited"
    /\ obs.fatal
    /\ obs.kind = "nondict"
    /\ request = JNum(5)
    /\ obs.path = "present"
    /\ request_count < MaxLines

\* C20: in the debug proxy a handle on which an exchange failed is replaced
\* before the next line is forwarded: nothing is written to a failed handle.
C20_FailedHandleReplaced ==
    dbg.pc = "send" => dbg.client \notin dbg.broken

\* the second line about to be written to the handle the first exchange
\* failed on, no connect made for it
C20_Witness ==
    /\ dbg.pc = "send"
    /\ dbg.client \in dbg.broken
    /\ dbg.client \in dbg.open
    /\ dbg.lines = 2
    /\ dbg.connects = 0
====
